---------------------------- MODULE Spec2Model ----------------------------
(***************************************************************************)
(* Rewarded-ads ledger service (FastAPI + SQLAlchemy over SQLite).         *)
(*                                                                         *)
(* The store is the committed content of the SQLite database.  Every HTTP  *)
(* request runs in a thread of the server's pool with a Session of its     *)
(* own (get_db); a Session reads with plain SELECTs, which see the last    *)
(* committed rows, keeps what it read and what it computed from it in      *)
(* Python objects, and writes everything at db.commit() in one SQLite      *)
(* write transaction.  A handler is therefore a sequence of steps: one per *)
(* SELECT (with the checks that follow it) and one for the commit, which   *)
(* writes the values computed from the rows read earlier.  Steps of       *)
(* different requests interleave; the steps of one request are in program  *)
(* order.  Spec is every interleaving of the requests of a pool of two     *)
(* threads, up to MaxRequests requests that get past their checks; SpecSeq *)
(* is the same program with a pool of one thread, which serves one request *)
(* at a time, without that limit.                                          *)
(*                                                                         *)
(* Money is counted in cents (the columns are Float; the amounts used here *)
(* are exact in cents).  Time is counted in seconds since an epoch that is *)
(* a midnight.  Row timestamps that no rule reads (created_at,             *)
(* occurred_at, updated_at, and completed_at, which is written together    *)
(* with status and rewarded_amount) are left out.  An email is its local   *)
(* part and an id_token is a string, both as sequences of characters.      *)
(***************************************************************************)
EXTENDS Integers, Sequences, FiniteSets, TLC

\* ------------------------------------------------------------ bounds
MaxViews == 2          \* AdView rows ever created
MaxWithdrawals == 2    \* Withdrawal rows ever created
MaxSecond == 1         \* the clock ticks second by second up to this second
MaxDay == 1            \* and jumps from midnight to midnight up to this day
MaxRequests == 5       \* Spec: requests that get past their checks
MaxUsers == 2          \* User rows ever created

\* ------------------------------------------------- program constants
MinWithdrawal == 1000  \* "if payload.amount < 10" (cents)
WithdrawalFee == 20    \* fee=0.2 (cents)
SecondsPerDay == 86400 \* replace(hour=0, minute=0, second=0, microsecond=0)
ADMIN_TOKEN == "admin_demo"
PrefixLen == 8         \* payload.id_token[:8]

None == "None"

\* ------------------------------------------------------------ inputs
Workers == {"w1", "w2"}                \* request threads
Emails == {<<"a">>}                    \* a@example.com
UserIds == 1 .. MaxUsers               \* ids a request may name
\* id_token: the empty string and two strings that share their first eight
\* characters
IdTokens ==
  { <<>>,
    <<"t", "o", "k", "e", "n", "0", "0", "0", "1">>,
    <<"t", "o", "k", "e", "n", "0", "0", "0", "2">> }
Tokens == 1 .. MaxViews                \* session tokens a request may name
WithdrawalIds == 1 .. MaxWithdrawals
Amounts == {MinWithdrawal - 1, MinWithdrawal, MinWithdrawal + 1}
Decisions == {"approved", "rejected"}  \* pattern="^(approved|rejected)$"
Notes == {"note"}
\* admin_token, withdrawal_id, status, review_notes
ReviewInputs ==
  ({ADMIN_TOKEN} \X WithdrawalIds \X Decisions \X Notes)
    \cup {<<"guess", 1, "approved", None>>}

\* The ad_units table.  on_startup seeds one row when the table is empty;
\* rows are never written by a handler, so the table is a fixed input.
ad_units ==
  [ a1 |-> [reward_min |-> 1000, reward_max |-> 1001, cooldown_seconds |-> 2,
            daily_cap |-> 2, is_active |-> TRUE],
    a2 |-> [reward_min |-> 500, reward_max |-> 500, cooldown_seconds |-> 1,
            daily_cap |-> 1, is_active |-> TRUE],
    a3 |-> [reward_min |-> 1, reward_max |-> 2, cooldown_seconds |-> 1,
            daily_cap |-> 1, is_active |-> FALSE] ]
AdUnitIds == DOMAIN ad_units
AdUnitInputs == AdUnitIds \cup {"missing"}

VARIABLES
  now,           \* datetime.utcnow(), in seconds
  users,         \* users table: sequence of rows, id = index
  balances,      \* balances table: user_id -> row
  ad_views,      \* ad_views table: sequence of rows, session_token = index
  transactions,  \* transactions table: sequence of rows (append only)
  auth_accounts, \* auth_accounts table: sequence of rows
  withdrawals,   \* withdrawals table: sequence of rows, id = index
  req,           \* per thread: the request it is serving and its Session
  response,      \* the HTTP response on its way to the client, if any
  served,        \* Spec: the requests that got past their checks so far
  threads        \* the threads of the pool

store == <<users, balances, ad_views, transactions, withdrawals, auth_accounts>>
vars == <<now, users, balances, ad_views, transactions, withdrawals, auth_accounts,
          req, response, served, threads>>

\* --------------------------------------------------------- helpers
Idle == [pc |-> "idle", user_id |-> 0, arg |-> None, amount |-> 0,
         decision |-> None, notes |-> None, view |-> 0, reward |-> 0,
         available |-> 0, pending |-> 0, email |-> <<>>, id_token |-> <<>>]

NoResponse == [status_code |-> 0, detail |-> None, body |-> <<>>]

HTTPException(code, detail) == [status_code |-> code, detail |-> detail, body |-> <<>>]

Ok(body) == [status_code |-> 200, detail |-> None, body |-> body]

\* The failure kinds of the design for the HTTP errors the handlers raise.
Kind(r) ==
  CASE r.status_code = 200 -> "OK"
    [] r.status_code = 404 -> "NOT_FOUND"
    [] r.status_code = 403 -> "FORBIDDEN"
    [] r.status_code = 429 -> "RATE_LIMITED"
    [] r.status_code = 500 -> "SERVER_ERROR"
    [] r.status_code = 400 /\ r.detail = "Email already used" -> "CONFLICT"
    [] r.status_code = 400 /\ r.detail = "Already completed" -> "INVALID_STATE"
    [] r.status_code = 400 -> "VALIDATION_ERROR"
    [] OTHER -> "NONE"

Indices(s, P(_)) == {i \in 1 .. Len(s) : P(s[i])}

RECURSIVE SumAmounts(_)
SumAmounts(rows) ==
  IF rows = <<>> THEN 0 ELSE rows[1].amount + SumAmounts(Tail(rows))

RowsOf(table, u) == SelectSeq(table, LAMBDA r : r.user_id = u)

\* get_user: db.get(User, user_id)
get_user(u) == u \in 1 .. Len(users)

\* thread w is free to take a request
Free(w) == response = NoResponse /\ w \in threads /\ req[w].pc = "idle"

\* thread w is at step pc of its request
At(w, pc) == response = NoResponse /\ req[w].pc = pc

\* the request of thread w ends with response r
Finish(w, r) ==
  /\ req' = [req EXCEPT ![w] = Idle]
  /\ response' = r
  /\ UNCHANGED <<served, threads>>

\* the request of thread w goes on with its next step; a request that gets
\* past its checks is counted when several threads serve
Goto(w, next) ==
  /\ req' = [req EXCEPT ![w] = next]
  /\ response' = NoResponse
  /\ served' = IF req[w].pc = "idle" /\ threads = Workers THEN served + 1 ELSE served
  /\ served' <= MaxRequests
  /\ UNCHANGED threads

\* the client receives the response; a response is received before the
\* next step of the server is looked at
Deliver ==
  /\ response # NoResponse
  /\ response' = NoResponse
  /\ UNCHANGED <<now, store, req, served, threads>>

\* ------------------------------------------------------------ clock
Tick ==
  /\ response = NoResponse
  /\ now < MaxSecond
  /\ now' = now + 1
  /\ UNCHANGED <<store, req, response, served, threads>>

Midnight ==
  /\ response = NoResponse
  /\ now < MaxDay * SecondsPerDay
  /\ now' = (now \div SecondsPerDay + 1) * SecondsPerDay
  /\ UNCHANGED <<store, req, response, served, threads>>

\* the requests of the pool that are at one of the steps pcs
InFlight(pcs) == Cardinality({w \in Workers : req[w].pc \in pcs})

\* --------------------------------------------------------- register
\* a registration that skips the lookup
email_never_used(email) == FALSE

\* db.query(User).filter(User.email == payload.email).first()
email_used(email) == \E i \in 1 .. Len(users) : users[i].email = email

register_check(w, email) ==
  /\ Free(w)
  /\ IF email_used(email)
       THEN Finish(w, HTTPException(400, "Email already used"))
       ELSE /\ Len(users) + InFlight({"register_commit", "google_commit"}) < MaxUsers
            /\ Goto(w, [Idle EXCEPT !.pc = "register_commit", !.email = email])
  /\ UNCHANGED <<now, store>>

\* db.add(user); db.flush(); db.add(Balance); db.commit().  The INSERT runs
\* at flush time against the committed table: users.email is unique.
register_commit(w) ==
  /\ At(w, "register_commit")
  /\ IF \E i \in 1 .. Len(users) : users[i].email = req[w].email
       THEN /\ Finish(w, HTTPException(500, "IntegrityError"))
            /\ UNCHANGED <<users, balances>>
       ELSE /\ users' = Append(users, [email |-> req[w].email])
            /\ balances' = Append(balances, [available |-> 0, pending |-> 0])
            /\ Finish(w, Ok(<<Len(users) + 1>>))
  /\ UNCHANGED <<now, ad_views, transactions, withdrawals, auth_accounts>>

\* ------------------------------------------------------ google_auth
\* payload.id_token[:8]
prefix(id_token) ==
  SubSeq(id_token, 1, IF Len(id_token) < PrefixLen THEN Len(id_token) ELSE PrefixLen)

\* f"google_{payload.id_token[:8]}@example.com"
google_email(id_token) == <<"g", "o", "o", "g", "l", "e", "_">> \o prefix(id_token)

\* db.query(AuthAccount).filter(provider == "google",
\*   provider_id == payload.id_token).first(); 0 when there is no row
auth_account_of(id_token) ==
  IF \E i \in 1 .. Len(auth_accounts) : auth_accounts[i].provider_id = id_token
    THEN CHOOSE i \in 1 .. Len(auth_accounts) : auth_accounts[i].provider_id = id_token
    ELSE 0

\* the token check and the AuthAccount lookup; a linked token is answered
\* with its user
google_auth_check(w, id_token) ==
  /\ Free(w)
  /\ IF id_token = <<>>
       THEN Finish(w, HTTPException(400, "Invalid token"))
       ELSE IF auth_account_of(id_token) # 0
       THEN Finish(w, Ok(<<auth_accounts[auth_account_of(id_token)].user_id>>))
       ELSE /\ \/ \E i \in 1 .. Len(users) : users[i].email = google_email(id_token)
               \/ Len(users) + InFlight({"register_commit", "google_commit"}) < MaxUsers
            /\ Goto(w, [Idle EXCEPT !.pc = "google_commit", !.id_token = id_token])
  /\ UNCHANGED <<now, store>>

\* db.add(user); db.flush(); db.add(Balance); db.add(AuthAccount);
\* db.commit(): users.email and auth_accounts.provider_id are unique, and a
\* failed INSERT leaves nothing written
google_auth_commit(w) ==
  /\ At(w, "google_commit")
  /\ IF \/ \E i \in 1 .. Len(users) : users[i].email = google_email(req[w].id_token)
        \/ auth_account_of(req[w].id_token) # 0
       THEN /\ Finish(w, HTTPException(500, "IntegrityError"))
            /\ UNCHANGED <<users, balances, auth_accounts>>
       ELSE /\ Len(users) < MaxUsers
            /\ users' = Append(users, [email |-> google_email(req[w].id_token)])
            /\ balances' = Append(balances, [available |-> 0, pending |-> 0])
            /\ auth_accounts' = Append(auth_accounts,
                  [user_id |-> Len(users) + 1, provider_id |-> req[w].id_token])
            /\ Finish(w, Ok(<<Len(users) + 1>>))
  /\ UNCHANGED <<now, ad_views, transactions, withdrawals>>

\* -------------------------------------------------------- ads_start
\* a cooldown that looks at the completed sessions only
recent_completed_view(u) ==
  LET mine == Indices(ad_views, LAMBDA v : v.user_id = u /\ v.status = "completed")
  IN IF mine = {} THEN 0
     ELSE CHOOSE i \in mine :
            \A j \in mine : ad_views[j].started_at <= ad_views[i].started_at

\* db.query(AdView).filter(user_id == user.id)
\*   .order_by(AdView.started_at.desc()).first(); 0 when there is no row
recent_view(u) ==
  LET mine == Indices(ad_views, LAMBDA v : v.user_id = u)
  IN IF mine = {} THEN 0
     ELSE CHOOSE i \in mine :
            \A j \in mine : ad_views[j].started_at <= ad_views[i].started_at

start_of_day(t) == t - (t % SecondsPerDay)

\* db.query(AdView).filter(user_id == user.id, status == "completed",
\*   started_at >= start_of_day).count()
daily_count(u, since) ==
  Cardinality(Indices(ad_views, LAMBDA v : /\ v.user_id = u
                                           /\ v.status = "completed"
                                           /\ v.started_at >= since))

\* the ad_views table is bounded: a request that would be admitted is taken
\* only while there is room for its row
RoomForView == Len(ad_views) + InFlight({"start_cap", "start_commit"}) < MaxViews

cap_reached(u, a) == daily_count(u, start_of_day(now)) >= ad_units[a].daily_cap

cooldown_active(u, a) ==
  /\ recent_view(u) # 0
  /\ now - ad_views[recent_view(u)].started_at < ad_units[a].cooldown_seconds

\* get_user, the ad unit lookup and the cooldown check
ads_start_cooldown(w, u, a) ==
  /\ Free(w)
  /\ IF ~get_user(u)
       THEN Finish(w, HTTPException(404, "User not found"))
       ELSE IF a \notin AdUnitIds \/ ~ad_units[a].is_active
       THEN Finish(w, HTTPException(404, "Ad unit not found"))
       ELSE IF cooldown_active(u, a)
       THEN Finish(w, HTTPException(429, "Cooldown active"))
       ELSE /\ cap_reached(u, a) \/ RoomForView
            /\ Goto(w, [Idle EXCEPT !.pc = "start_cap", !.user_id = u, !.arg = a])
  /\ UNCHANGED <<now, store>>

\* the daily cap check
ads_start_cap(w) ==
  /\ At(w, "start_cap")
  /\ IF cap_reached(req[w].user_id, req[w].arg)
       THEN Finish(w, HTTPException(429, "Daily cap reached"))
       ELSE /\ Len(ad_views) + InFlight({"start_commit"}) < MaxViews
            /\ Goto(w, [req[w] EXCEPT !.pc = "start_commit"])
  /\ UNCHANGED <<now, store>>

\* db.add(AdView(...)); db.commit().  session_token = uuid4().hex is fresh:
\* the row's index.  started_at defaults to utcnow() at the INSERT.
ads_start_commit(w) ==
  /\ At(w, "start_commit")
  /\ ad_views' = Append(ad_views,
        [user_id |-> req[w].user_id, ad_unit_id |-> req[w].arg,
         started_at |-> now, rewarded_amount |-> None,
         status |-> "started"])
  /\ Finish(w, Ok(<<Len(ad_views) + 1, ad_units[req[w].arg].cooldown_seconds>>))
  /\ UNCHANGED <<now, users, balances, transactions, withdrawals, auth_accounts>>

\* ----------------------------------------------------- ads_complete
\* db.query(AdView).filter(session_token == payload.session_token).first()
view_of_token(token) == IF token \in 1 .. Len(ad_views) THEN token ELSE 0

\* a lookup that forgets whose session it is
session_missing(u, token) == view_of_token(token) = 0

\* if not ad_view or ad_view.user_id != user.id
session_not_found(u, token) ==
  view_of_token(token) = 0 \/ ad_views[view_of_token(token)].user_id # u

\* a check that lets a session expire at midnight
not_started_today(v) == v.status # "started" \/ v.started_at < start_of_day(now)

\* a check that takes a completed session for one still open
not_started_or_completed(v) == v.status \notin {"started", "completed"}

\* if ad_view.status != "started"
not_started(v) == v.status # "started"

ads_complete_check(w, u, token) ==
  /\ Free(w)
  /\ IF ~get_user(u)
       THEN Finish(w, HTTPException(404, "User not found"))
       ELSE IF session_not_found(u, token)
       THEN Finish(w, HTTPException(404, "Session not found"))
       ELSE IF not_started(ad_views[view_of_token(token)])
       THEN Finish(w, HTTPException(400, "Already completed"))
       ELSE Goto(w, [Idle EXCEPT !.pc = "complete_balance", !.user_id = u,
                                 !.view = view_of_token(token)])
  /\ UNCHANGED <<now, store>>

\* random.uniform(ad_unit.reward_min, ad_unit.reward_max) if ad_unit else 0.0
Rewards(a) ==
  IF a \in AdUnitIds THEN ad_units[a].reward_min .. ad_units[a].reward_max ELSE {0}

\* the reward draw, the Python-side update of the AdView object, the lazy
\* load of user.balance and balance.available += reward
ads_complete_balance(w) ==
  /\ At(w, "complete_balance")
  /\ \E r \in Rewards(ad_views[req[w].view].ad_unit_id) :
       Goto(w, [req[w] EXCEPT !.pc = "complete_commit", !.reward = r,
                              !.available = balances[req[w].user_id].available + r])
  /\ UNCHANGED <<now, store>>

\* db.add(Transaction(...)); db.commit(): UPDATE ad_views, UPDATE balances
\* SET available, INSERT transactions, in one write transaction
ads_complete_commit(w) ==
  /\ At(w, "complete_commit")
  /\ ad_views' = [ad_views EXCEPT ![req[w].view] =
        [@ EXCEPT !.status = "completed", !.rewarded_amount = req[w].reward]]
  /\ balances' = [balances EXCEPT ![req[w].user_id].available = req[w].available]
  /\ transactions' = Append(transactions,
        [user_id |-> req[w].user_id, type |-> "earn", source |-> "ad_view",
         amount |-> req[w].reward])
  /\ Goto(w, [req[w] EXCEPT !.pc = "complete_return"])
  /\ UNCHANGED <<now, users, withdrawals, auth_accounts>>

\* AdCompleteResponse(reward, new_balance=balance.available): the commit
\* expired the Balance object, so the attribute is read again
ads_complete_return(w) ==
  /\ At(w, "complete_return")
  /\ Finish(w, Ok(<<req[w].reward, balances[req[w].user_id].available>>))
  /\ UNCHANGED <<now, store>>

\* ------------------------------------------------- request_withdraw
\* if payload.amount < 10
below_minimum(amount) == amount < MinWithdrawal

\* a check against everything the user holds, pending included
insufficient_total(balance, amount) == balance.available + balance.pending < amount

\* a check of the amount net of the fee
insufficient_after_fee(balance, amount) == balance.available < amount - WithdrawalFee

\* if balance.available < payload.amount
insufficient(balance, amount) == balance.available < amount

\* a debit that forgets to move the amount to pending
debit_available_only(balance, amount) ==
  [available |-> balance.available - amount, pending |-> balance.pending]

\* balance.available -= payload.amount; balance.pending += payload.amount
debit(balance, amount) ==
  [available |-> balance.available - amount, pending |-> balance.pending + amount]

RoomForWithdrawal ==
  Len(withdrawals) + InFlight({"withdraw_commit"}) < MaxWithdrawals

\* get_user, the minimum check, the lazy load of user.balance, the balance
\* check and the Python-side update of the Balance object
request_withdraw_check(w, u, amount) ==
  /\ Free(w)
  /\ IF ~get_user(u)
       THEN Finish(w, HTTPException(404, "User not found"))
       ELSE IF below_minimum(amount)
       THEN Finish(w, HTTPException(400, "Minimum is $10"))
       ELSE IF insufficient(balances[u], amount)
       THEN Finish(w, HTTPException(400, "Insufficient balance"))
       ELSE /\ RoomForWithdrawal
            /\ Goto(w, [Idle EXCEPT !.pc = "withdraw_commit", !.user_id = u,
                                    !.amount = amount,
                                    !.available = debit(balances[u], amount).available,
                                    !.pending = debit(balances[u], amount).pending])
  /\ UNCHANGED <<now, store>>

\* a withdrawal posted with the sign of the amount lost
request_withdraw_unsigned(w) ==
  /\ At(w, "withdraw_commit")
  /\ balances' = [balances EXCEPT ![req[w].user_id] =
        [available |-> req[w].available, pending |-> req[w].pending]]
  /\ withdrawals' = Append(withdrawals,
        [user_id |-> req[w].user_id, amount |-> req[w].amount,
         fee |-> WithdrawalFee, status |-> "pending", reviewed_at |-> None,
         review_notes |-> None])
  /\ transactions' = Append(transactions,
        [user_id |-> req[w].user_id, type |-> "spend", source |-> "withdrawal",
         amount |-> req[w].amount])
  /\ Finish(w, Ok(<<Len(withdrawals) + 1, "pending">>))
  /\ UNCHANGED <<now, users, ad_views, auth_accounts>>

\* db.add(withdrawal); db.add(Transaction(...)); db.commit(): UPDATE balances
\* SET available, pending, INSERT withdrawals, INSERT transactions
request_withdraw_commit(w) ==
  /\ At(w, "withdraw_commit")
  /\ balances' = [balances EXCEPT ![req[w].user_id] =
        [available |-> req[w].available, pending |-> req[w].pending]]
  /\ withdrawals' = Append(withdrawals,
        [user_id |-> req[w].user_id, amount |-> req[w].amount,
         fee |-> WithdrawalFee, status |-> "pending", reviewed_at |-> None,
         review_notes |-> None])
  /\ transactions' = Append(transactions,
        [user_id |-> req[w].user_id, type |-> "spend", source |-> "withdrawal",
         amount |-> 0 - req[w].amount])
  /\ Finish(w, Ok(<<Len(withdrawals) + 1, "pending">>))
  /\ UNCHANGED <<now, users, ad_views, auth_accounts>>

\* ------------------------------------------------ review_withdrawal
\* require_admin, then db.get(Withdrawal, withdrawal_id)
review_withdrawal_check(w, admin_token, id, decision, notes) ==
  /\ Free(w)
  /\ IF admin_token # ADMIN_TOKEN
       THEN Finish(w, HTTPException(403, "Not authorized"))
       ELSE IF id \notin 1 .. Len(withdrawals)
       THEN Finish(w, HTTPException(404, "Withdrawal not found"))
       ELSE Goto(w, [Idle EXCEPT !.pc = "review_commit", !.view = id,
                                 !.decision = decision, !.notes = notes])
  /\ UNCHANGED <<now, store>>

\* a review that also takes the amount of the decided withdrawal out of pending
review_withdrawal_settling(w) ==
  /\ At(w, "review_commit")
  /\ withdrawals' = [withdrawals EXCEPT ![req[w].view] =
        [@ EXCEPT !.status = req[w].decision, !.reviewed_at = now,
                  !.review_notes = req[w].notes]]
  /\ balances' = [balances EXCEPT ![withdrawals[req[w].view].user_id].pending =
        @ - withdrawals[req[w].view].amount]
  /\ Finish(w, Ok(<<req[w].view, req[w].decision>>))
  /\ UNCHANGED <<now, users, ad_views, transactions, auth_accounts>>

\* withdrawal.status = payload.status; reviewed_at = utcnow();
\* review_notes = payload.review_notes; db.commit()
review_withdrawal_commit(w) ==
  /\ At(w, "review_commit")
  /\ withdrawals' = [withdrawals EXCEPT ![req[w].view] =
        [@ EXCEPT !.status = req[w].decision, !.reviewed_at = now,
                  !.review_notes = req[w].notes]]
  /\ Finish(w, Ok(<<req[w].view, req[w].decision>>))
  /\ UNCHANGED <<now, users, balances, ad_views, transactions, auth_accounts>>

\* ---------------------------------------------------- specification
Empty ==
  /\ now = 0
  /\ users = <<>>
  /\ balances = <<>>
  /\ ad_views = <<>>
  /\ transactions = <<>>
  /\ withdrawals = <<>>
  /\ auth_accounts = <<>>
  /\ req = [w \in Workers |-> Idle]
  /\ response = NoResponse
  /\ served = 0

Init == Empty /\ threads = Workers

InitSeq == Empty /\ threads = {"w1"}

AtRest == \A w \in Workers : req[w].pc = "idle"

Next ==
  \/ Deliver
  \/ Tick
  \/ Midnight
  \/ \E w \in Workers :
       \/ \E e \in Emails : register_check(w, e)
       \/ register_commit(w)
       \/ \E t \in IdTokens : google_auth_check(w, t)
       \/ google_auth_commit(w)
       \/ \E u \in UserIds, a \in AdUnitInputs : ads_start_cooldown(w, u, a)
       \/ ads_start_cap(w)
       \/ ads_start_commit(w)
       \/ \E u \in UserIds, t \in Tokens : ads_complete_check(w, u, t)
       \/ ads_complete_balance(w)
       \/ ads_complete_commit(w)
       \/ ads_complete_return(w)
       \/ \E u \in UserIds, m \in Amounts : request_withdraw_check(w, u, m)
       \/ request_withdraw_commit(w)
       \/ \E r \in ReviewInputs : review_withdrawal_check(w, r[1], r[2], r[3], r[4])
       \/ review_withdrawal_commit(w)

Spec == Init /\ [][Next]_vars

SpecSeq == InitSeq /\ [][Next]_vars

\* ------------------------------------------------------- properties
Registered == 1 .. Len(users)

Ledger(u) == SumAmounts(RowsOf(transactions, u))

Earned(u) ==
  SumAmounts(SelectSeq(transactions, LAMBDA t : t.user_id = u /\ t.type = "earn"))

Withdrawn(u) == SumAmounts(RowsOf(withdrawals, u))

CompletedViews(u) ==
  Indices(ad_views, LAMBDA v : v.user_id = u /\ v.status = "completed")

EarnTransactions(u) ==
  Indices(transactions, LAMBDA t : t.user_id = u /\ t.type = "earn")

\* C1 as stated: at rest, for every user available + pending equals the sum
\* of the amounts of the user's transactions.
C1_BalanceEqualsLedger ==
  AtRest => \A u \in Registered :
    balances[u].available + balances[u].pending = Ledger(u)

\* C1 as amended: at rest, with requests served one at a time, for every
\* user available + pending equals the sum of the amounts of the user's
\* transactions plus the sum of the amounts of the user's withdrawals (a
\* withdrawal moves its amount to pending and also posts -amount).
C1_BalanceEqualsLedgerPlusWithdrawals ==
  AtRest => \A u \in Registered :
    balances[u].available + balances[u].pending = Ledger(u) + Withdrawn(u)

C1_Witness ==
  /\ AtRest
  /\ \E u \in Registered :
       /\ balances[u].pending >= MinWithdrawal
       /\ Earned(u) > 0
       /\ Withdrawn(u) > 0

\* C2: whatever the interleaving of the RequestWithdrawal requests of a
\* user, the withdrawals created never add up to more than the user had
\* (everything the user had came from rewards), and once the requests are
\* over pending has grown by the amounts of all the withdrawals created.
C2_ConcurrentWithdrawalsCovered ==
  \A u \in Registered :
    /\ Withdrawn(u) <= Earned(u)
    /\ AtRest => balances[u].pending = Withdrawn(u)

\* C3: an AdView is rewarded once: a user never has more earn transactions
\* than completed AdViews, in any interleaving of CompleteSession requests.
C3_RewardedOnce ==
  \A u \in Registered :
    Cardinality(EarnTransactions(u)) <= Cardinality(CompletedViews(u))

\* C4: a withdrawal that is approved or rejected is never changed again
\* (status, reviewed timestamp, notes).
C4_ReviewedOnce ==
  [][\A i \in 1 .. Len(withdrawals) :
       withdrawals[i].status # "pending" => withdrawals'[i] = withdrawals[i]]_vars

\* C5: the commit of a RequestWithdrawal(user, amount) takes amount from the
\* user's available, adds it to the user's pending, appends one pending
\* Withdrawal with that amount and fee 0.20 and one spend Transaction of
\* -amount, and changes nothing else.
C5_WithdrawalEffect ==
  [][\A w \in Workers : request_withdraw_commit(w) =>
       LET u == req[w].user_id
           m == req[w].amount
       IN /\ balances' = [balances EXCEPT
               ![u] = [available |-> balances[u].available - m,
                       pending |-> balances[u].pending + m]]
          /\ withdrawals' = Append(withdrawals,
               [user_id |-> u, amount |-> m, fee |-> WithdrawalFee,
                status |-> "pending", reviewed_at |-> None, review_notes |-> None])
          /\ transactions' = Append(transactions,
               [user_id |-> u, type |-> "spend", source |-> "withdrawal",
                amount |-> 0 - m])
          /\ UNCHANGED <<users, ad_views, auth_accounts>>]_vars

\* C6: a RequestWithdrawal of a user with amount < 10, or with amount above
\* the available balance the request reads, is answered VALIDATION_ERROR, and
\* a RequestWithdrawal that is answered with an error changes no record (the
\* user's Balance, Withdrawals and Transactions among them).
C6_WithdrawalRejected ==
  [][\A w \in Workers, u \in UserIds, m \in Amounts :
       request_withdraw_check(w, u, m) =>
         /\ (get_user(u) /\ (m < MinWithdrawal \/ m > balances[u].available))
              => Kind(response') = "VALIDATION_ERROR"
         /\ response' # NoResponse => (req'[w] = Idle /\ UNCHANGED store)
         /\ response' = NoResponse => req'[w].pc = "withdraw_commit"]_vars

\* the only user has 10 or more and was refused a larger amount
C6_Witness ==
  /\ response = HTTPException(400, "Insufficient balance")
  /\ Len(users) = 1
  /\ balances[1].available >= MinWithdrawal

\* C7: a StartSession of a user on an active ad unit, made less than that ad
\* unit's cooldown after one of the user's sessions started, is answered
\* RATE_LIMITED and creates no AdView, completed or not the earlier session.
C7_CooldownEnforced ==
  [][\A w \in Workers, u \in UserIds, a \in AdUnitIds :
       (/\ ads_start_cooldown(w, u, a)
        /\ get_user(u)
        /\ ad_units[a].is_active
        /\ \E i \in 1 .. Len(ad_views) :
             /\ ad_views[i].user_id = u
             /\ now - ad_views[i].started_at < ad_units[a].cooldown_seconds)
       => /\ Kind(response') = "RATE_LIMITED"
          /\ req'[w] = Idle
          /\ UNCHANGED store]_vars

\* the only user is refused a second after a session that is completed
C7_Witness ==
  /\ response = HTTPException(429, "Cooldown active")
  /\ Len(users) = 1
  /\ \E i \in 1 .. Len(ad_views) :
       /\ ad_views[i].status = "completed"
       /\ now - ad_views[i].started_at > 0

\* the user's completed AdViews on one ad unit started since `since`
pair_count(u, a, since) ==
  Cardinality(Indices(ad_views, LAMBDA v : /\ v.user_id = u
                                           /\ v.ad_unit_id = a
                                           /\ v.status = "completed"
                                           /\ v.started_at >= since))

\* C8: for each (user, ad unit) pair on its own: when the user's earlier
\* sessions are all completed and the cooldown has passed, a StartSession is
\* answered RATE_LIMITED exactly when the user has already completed
\* daily_cap sessions of that ad unit started today, and is admitted
\* otherwise.
C8_PairCapExact ==
  [][\A w \in Workers :
       (/\ ads_start_cap(w)
        /\ \A i \in 1 .. Len(ad_views) :
             ad_views[i].user_id = req[w].user_id => ad_views[i].status = "completed")
       => (Kind(response') = "RATE_LIMITED"
             <=> pair_count(req[w].user_id, req[w].arg, start_of_day(now))
                   >= ad_units[req[w].arg].daily_cap)]_vars

Days == 0 .. MaxDay

\* C9: for every user, ad unit and day, at most daily_cap of the user's
\* AdViews of that ad unit started on that day are completed.
C9_CompletedWithinCap ==
  \A u \in Registered, a \in AdUnitIds, d \in Days :
    Cardinality(Indices(ad_views, LAMBDA v :
        /\ v.user_id = u
        /\ v.ad_unit_id = a
        /\ v.status = "completed"
        /\ v.started_at \div SecondsPerDay = d)) <= ad_units[a].daily_cap

\* C10: a CompleteSession by the owner of a started AdView is admitted and,
\* once admitted, answered OK; a CompleteSession by the owner of an AdView
\* that is already completed is answered INVALID_STATE and leaves the AdView,
\* the balance and the transactions as they were.
C10_SecondCompleteRejected ==
  [][/\ \A w \in Workers, u \in UserIds, t \in Tokens :
          (/\ ads_complete_check(w, u, t)
           /\ get_user(u)
           /\ view_of_token(t) # 0
           /\ ad_views[view_of_token(t)].user_id = u)
          => IF ad_views[view_of_token(t)].status = "completed"
               THEN /\ Kind(response') = "INVALID_STATE"
                    /\ req'[w] = Idle
                    /\ UNCHANGED store
               ELSE /\ response' = NoResponse
                    /\ req'[w].pc = "complete_balance"
     /\ \A w \in Workers :
          ads_complete_return(w) => (Kind(response') = "OK" /\ UNCHANGED store)]_vars

\* the only user is refused the second completion of a session, rewarded once
C10_Witness ==
  /\ response = HTTPException(400, "Already completed")
  /\ Len(users) = 1
  /\ Cardinality(CompletedViews(1)) = 1
  /\ Cardinality(EarnTransactions(1)) = 1
  /\ balances[1].available = ad_views[1].rewarded_amount

\* C11: a CompleteSession of a user with a token that matches no AdView, or
\* an AdView of another user, is answered NOT_FOUND and changes no record
\* (the AdView, if any, and every Balance and Transaction among them).
C11_UnknownSessionNotFound ==
  [][\A w \in Workers, u \in UserIds, t \in Tokens :
       (/\ ads_complete_check(w, u, t)
        /\ get_user(u)
        /\ \/ t \notin 1 .. Len(ad_views)
           \/ ad_views[t].user_id # u)
       => /\ Kind(response') = "NOT_FOUND"
          /\ req'[w] = Idle
          /\ UNCHANGED store]_vars

\* every token matches an AdView, all of them still started, and a user is
\* answered that the session is not found: it is another user's
C11_Witness ==
  /\ response = HTTPException(404, "Session not found")
  /\ Len(users) = MaxUsers
  /\ Len(ad_views) = MaxViews
  /\ \A i \in 1 .. Len(ad_views) : ad_views[i].status = "started"

\* the user's completed AdViews rewarded with x
RewardedWith(u, x) ==
  Indices(ad_views, LAMBDA v : /\ v.user_id = u
                               /\ v.status = "completed"
                               /\ v.rewarded_amount = x)

\* the user's earn Transactions of amount x
EarnedWith(u, x) ==
  Indices(transactions, LAMBDA t : /\ t.user_id = u
                                   /\ t.type = "earn"
                                   /\ t.source = "ad_view"
                                   /\ t.amount = x)

RewardValues ==
  {ad_views[i].rewarded_amount : i \in {j \in 1 .. Len(ad_views) :
                                          ad_views[j].status = "completed"}}
    \cup {transactions[i].amount : i \in {j \in 1 .. Len(transactions) :
                                            transactions[j].type = "earn"}}

\* C12: at rest, the completed AdViews of a user and the user's earn
\* Transactions match one to one on the amount, every reward posted is in
\* the user's balance (available, or pending once withdrawn), and an AdView
\* that is still started has no rewarded_amount.
C12_CompletionAllOrNothing ==
  AtRest =>
    /\ \A u \in Registered :
         /\ \A x \in RewardValues :
              Cardinality(RewardedWith(u, x)) = Cardinality(EarnedWith(u, x))
         /\ balances[u].available + balances[u].pending = Earned(u)
    /\ \A i \in 1 .. Len(ad_views) :
         ad_views[i].status = "started" => ad_views[i].rewarded_amount = None

\* C13: the commit of a CompleteSession stores a reward r within the bounds
\* of the session's ad unit as the AdView's rewarded_amount and raises the
\* user's available balance from what it was to that plus r; the response
\* carries that r and, as new balance, the balance from before plus r.
C13_RewardAndNewBalance ==
  [][\A w \in Workers :
       LET u == req[w].user_id
           v == req[w].view
           r == req[w].reward
       IN /\ ads_complete_commit(w) =>
               /\ ad_units[ad_views[v].ad_unit_id].reward_min <= r
               /\ r <= ad_units[ad_views[v].ad_unit_id].reward_max
               /\ ad_views'[v].rewarded_amount = r
               /\ balances'[u].available = balances[u].available + r
          /\ ads_complete_return(w) =>
               /\ Kind(response') = "OK"
               /\ response'.body = <<ad_views[v].rewarded_amount, req[w].available>>
               /\ response'.body[1] = r]_vars

\* C14: whatever the interleaving of the StartSession requests of a user,
\* two AdViews of the user are never created within one cooldown window: the
\* later one starts at least the cooldown of its ad unit after the earlier
\* one, as in every execution that serves the requests one at a time.
C14_ConcurrentStartsGated ==
  \A i, j \in 1 .. Len(ad_views) :
    (i < j /\ ad_views[i].user_id = ad_views[j].user_id)
      => ad_views[j].started_at - ad_views[i].started_at
           >= ad_units[ad_views[j].ad_unit_id].cooldown_seconds

\* C15: the commit of a ReviewWithdrawal sets the status, the reviewed
\* timestamp and the notes of the reviewed Withdrawal and changes nothing
\* else: not its other columns, no other Withdrawal, no Balance (the amount
\* stays in pending), no Transaction, no other record.
C15_ReviewFrame ==
  [][\A w \in Workers : review_withdrawal_commit(w) =>
       LET id == req[w].view
       IN /\ UNCHANGED <<users, balances, ad_views, transactions, auth_accounts>>
          /\ withdrawals' = [withdrawals EXCEPT ![id] =
                [user_id |-> withdrawals[id].user_id,
                 amount |-> withdrawals[id].amount,
                 fee |-> withdrawals[id].fee,
                 status |-> req[w].decision,
                 reviewed_at |-> now,
                 review_notes |-> req[w].notes]]
          /\ req[w].decision \in Decisions]_vars

\* a review has just been answered: the only withdrawal is decided and its
\* amount is still in the pending balance of its user
C15_Witness ==
  /\ Kind(response) = "OK"
  /\ Len(withdrawals) = 1
  /\ withdrawals[1].status \in Decisions
  /\ withdrawals[1].reviewed_at = now
  /\ balances[withdrawals[1].user_id].pending = withdrawals[1].amount
  /\ balances[withdrawals[1].user_id].pending > 0

\* emails are unique and every user has exactly one balance
UniqueEmailsOneBalance ==
  /\ \A i, j \in 1 .. Len(users) : users[i].email = users[j].email => i = j
  /\ DOMAIN balances = DOMAIN users

\* C16: a Register with the email of an existing user is answered CONFLICT
\* and changes no record; no step removes or changes a user, whose id stays
\* its own; and in every reachable state emails are unique and every user
\* has exactly one balance.
C16_RegisterConflict ==
  /\ []UniqueEmailsOneBalance
  /\ [][/\ \A w \in Workers, e \in Emails :
            (register_check(w, e) /\ \E i \in 1 .. Len(users) : users[i].email = e)
            => /\ Kind(response') = "CONFLICT"
               /\ req'[w] = Idle
               /\ UNCHANGED store
       /\ \A i \in 1 .. Len(users) :
            Len(users') >= Len(users) /\ users'[i] = users[i]]_vars

\* a second registration of the email of the first of two users is refused
C16_Witness ==
  /\ response = HTTPException(400, "Email already used")
  /\ Len(users) = MaxUsers
  /\ users[1].email \in Emails
  /\ UniqueEmailsOneBalance

\* C17: an ExternalIdentityLogin with the empty token is answered
\* VALIDATION_ERROR; with any other token it is answered OK with a user id:
\* the user of the token's AuthAccount if there is one, otherwise a new User
\* created together with one zero Balance and one AuthAccount for the token;
\* and two tokens are never linked to the same user.
C17_ExternalLoginSucceeds ==
  /\ [](\A i, j \in 1 .. Len(auth_accounts) :
          auth_accounts[i].user_id = auth_accounts[j].user_id => i = j)
  /\ [][/\ \A w \in Workers, t \in IdTokens :
            google_auth_check(w, t) =>
              /\ t = <<>> => (Kind(response') = "VALIDATION_ERROR" /\ UNCHANGED store)
              /\ (t # <<>> /\ auth_account_of(t) # 0) =>
                   /\ response' = Ok(<<auth_accounts[auth_account_of(t)].user_id>>)
                   /\ UNCHANGED store
              /\ (t # <<>> /\ auth_account_of(t) = 0) =>
                   /\ response' = NoResponse
                   /\ req'[w].pc = "google_commit"
       /\ \A w \in Workers :
            google_auth_commit(w) =>
              /\ response' = Ok(<<Len(users) + 1>>)
              /\ Len(users') = Len(users) + 1
              /\ balances' = Append(balances, [available |-> 0, pending |-> 0])
              /\ auth_accounts' = Append(auth_accounts,
                    [user_id |-> Len(users) + 1, provider_id |-> req[w].id_token])]_vars

\* C18: with requests served one at a time, for every user pending equals
\* the sum of the amounts of the user's withdrawals, whatever their status,
\* and available equals the sum of the amounts of the user's transactions.
C18_PendingAndAvailableReconciled ==
  \A u \in Registered :
    /\ balances[u].pending = Withdrawn(u)
    /\ balances[u].available = Ledger(u)

\* a user with something left has a withdrawal that was decided
C18_Witness ==
  \E i \in 1 .. Len(withdrawals) :
    /\ withdrawals[i].status \in Decisions
    /\ balances[withdrawals[i].user_id].pending >= MinWithdrawal
    /\ balances[withdrawals[i].user_id].available > 0

\* C19: with requests served one at a time and rewards that are not
\* negative, available and pending of every user are never negative.
C19_BalancesNotNegative ==
  \A u \in Registered : balances[u].available >= 0 /\ balances[u].pending >= 0

\* a user has withdrawn everything
C19_Witness ==
  \E u \in Registered :
    /\ balances[u].available = 0
    /\ balances[u].pending >= MinWithdrawal
    /\ \A a \in AdUnitIds : 0 <= ad_units[a].reward_min
                              /\ ad_units[a].reward_min <= ad_units[a].reward_max

\* C20: a CompleteSession of the owner of an AdView that is still started
\* is admitted whatever the time, the cooldown, the sessions completed that
\* day and the sessions open, and once admitted it completes the AdView and
\* is answered OK.
C20_CompletionNotGated ==
  [][/\ \A w \in Workers, u \in UserIds, t \in Tokens :
          (/\ ads_complete_check(w, u, t)
           /\ get_user(u)
           /\ t \in 1 .. Len(ad_views)
           /\ ad_views[t].user_id = u
           /\ ad_views[t].status = "started")
          => /\ response' = NoResponse
             /\ req'[w].view = t
             /\ req'[w].pc = "complete_balance"
     /\ \A w \in Workers :
          /\ ads_complete_balance(w) => req'[w].pc = "complete_commit"
          /\ ads_complete_commit(w) =>
               /\ ad_views'[req[w].view].status = "completed"
               /\ req'[w].pc = "complete_return"
          /\ ads_complete_return(w) => Kind(response') = "OK"]_vars

\* a session is completed a day or more after it started, on a day the
\* user has another session open
C20_Witness ==
  \E w \in Workers :
    /\ req[w].pc = "complete_return"
    /\ now - ad_views[req[w].view].started_at >= SecondsPerDay
    /\ \E i \in 1 .. Len(ad_views) :
         /\ ad_views[i].user_id = req[w].user_id
         /\ ad_views[i].status = "started"
         /\ ad_views[i].started_at >= start_of_day(now)

=============================================================================
